---- MODULE Spec2Model ----
(***************************************************************************)
(* CBETA metadata analyzer: extraction of the metadata of a TEI document,  *)
(* keyword classification (tradition, period, geographic origin), the      *)
(* corpus walk that folds each document into the grouping indices, and the *)
(* serialisation of the result.                                            *)
(*                                                                         *)
(* A text is a sequence of characters.  A character is a one-element       *)
(* string when it is ASCII ("z") and the string uXXXX of its code point    *)
(* otherwise ("u5B8B" is U+5B8B).                                          *)
(***************************************************************************)
EXTENDS Integers, Sequences, FiniteSets, TLC

\* ----------------------------------------------------------------- bounds
\* the longest source text drawn for the classifiers, in tokens of TokenPool
MaxTokens == 2
\* string hash seeds 0..MaxSeed of a process (PYTHONHASHSEED)
MaxSeed == 1
\* the largest corpus walked
MaxFiles == 3

\* the listing of the large corpus starts at one of its first 1 + MaxShift files
MaxShift == 1

\* most title, and most author, elements of a generated document
MaxElems == 2

\* Python's None
None == "None"

\* ----------------------------------------------------------------- tables
\* label -> keyword list, in dict insertion order (a character is written
\* as itself when ASCII and as uXXXX, its code point, otherwise)
TRADITION_CLASSIFICATIONS ==
    << \* 禪  禅  chan  zen  曹洞  臨濟  雲門  潙仰  法眼
       [label |-> "Chan/Zen", keywords |-> <<
          <<"u79AA">>, <<"u7985">>, <<"c", "h", "a", "n">>,
          <<"z", "e", "n">>, <<"u66F9", "u6D1E">>, <<"u81E8", "u6FDF">>,
          <<"u96F2", "u9580">>, <<"u6F59", "u4EF0">>, <<"u6CD5", "u773C">> >>],
       \* 淨土  净土  净土宗  淨土宗  蓮社  念佛法門  阿彌陀
       [label |-> "Pure Land", keywords |-> <<
          <<"u6DE8", "u571F">>, <<"u51C0", "u571F">>, <<"u51C0", "u571F", "u5B97">>,
          <<"u6DE8", "u571F", "u5B97">>, <<"u84EE", "u793E">>, <<"u5FF5", "u4F5B", "u6CD5", "u9580">>,
          <<"u963F", "u5F4C", "u9640">> >>],
       \* 天台  法華  止觀  智者  天台宗
       [label |-> "Tiantai", keywords |-> <<
          <<"u5929", "u53F0">>, <<"u6CD5", "u83EF">>, <<"u6B62", "u89C0">>,
          <<"u667A", "u8005">>, <<"u5929", "u53F0", "u5B97">> >>],
       \* 華嚴  华严  賢首  法藏  澄觀
       [label |-> "Huayan", keywords |-> <<
          <<"u83EF", "u56B4">>, <<"u534E", "u4E25">>, <<"u8CE2", "u9996">>,
          <<"u6CD5", "u85CF">>, <<"u6F84", "u89C0">> >>],
       \* 律  毗奈耶  戒律  四分律  五分律  摩訶僧祇律
       [label |-> "Vinaya", keywords |-> <<
          <<"u5F8B">>, <<"u6BD7", "u5948", "u8036">>, <<"u6212", "u5F8B">>,
          <<"u56DB", "u5206", "u5F8B">>, <<"u4E94", "u5206", "u5F8B">>, <<"u6469", "u8A36", "u50E7", "u7947", "u5F8B">> >>],
       \* 中觀  中論  龍樹  提婆  三論
       [label |-> "Madhyamaka", keywords |-> <<
          <<"u4E2D", "u89C0">>, <<"u4E2D", "u8AD6">>, <<"u9F8D", "u6A39">>,
          <<"u63D0", "u5A46">>, <<"u4E09", "u8AD6">> >>],
       \* 瑜伽  唯識  瑜伽行派  無著  世親  成唯識
       [label |-> "Yogacara", keywords |-> <<
          <<"u745C", "u4F3D">>, <<"u552F", "u8B58">>, <<"u745C", "u4F3D", "u884C", "u6D3E">>,
          <<"u7121", "u8457">>, <<"u4E16", "u89AA">>, <<"u6210", "u552F", "u8B58">> >>],
       \* 密  密教  陀羅尼  真言  壇城  曼荼羅
       [label |-> "Esoteric", keywords |-> <<
          <<"u5BC6">>, <<"u5BC6", "u6559">>, <<"u9640", "u7F85", "u5C3C">>,
          <<"u771F", "u8A00">>, <<"u58C7", "u57CE">>, <<"u66FC", "u837C", "u7F85">> >>],
       \* 菩薩戒  梵網經  心地戒
       [label |-> "Pure Precepts", keywords |-> <<
          <<"u83E9", "u85A9", "u6212">>, <<"u68B5", "u7DB2", "u7D93">>, <<"u5FC3", "u5730", "u6212">> >>],
       \* 南傳  巴利  Theravāda  尼柯耶  律藏
       [label |-> "Pali/Theravada", keywords |-> <<
          <<"u5357", "u50B3">>, <<"u5DF4", "u5229">>, <<"T", "h", "e", "r", "a", "v", "u0101", "d", "a">>,
          <<"u5C3C", "u67EF", "u8036">>, <<"u5F8B", "u85CF">> >>],
       \* 藏傳  西藏  Tibetan  甘珠爾  丹珠爾
       [label |-> "Tibetan", keywords |-> <<
          <<"u85CF", "u50B3">>, <<"u897F", "u85CF">>, <<"T", "i", "b", "e", "t", "a", "n">>,
          <<"u7518", "u73E0", "u723E">>, <<"u4E39", "u73E0", "u723E">> >>],
       \* 註  疏  記  釋  解  論  鈔
       [label |-> "Commentarial", keywords |-> <<
          <<"u8A3B">>, <<"u758F">>, <<"u8A18">>,
          <<"u91CB">>, <<"u89E3">>, <<"u8AD6">>,
          <<"u9214">> >>],
       \* 史  傳  誌  錄  譜
       [label |-> "Historical", keywords |-> <<
          <<"u53F2">>, <<"u50B3">>, <<"u8A8C">>,
          <<"u9304">>, <<"u8B5C">> >>],
       \* 儀軌  法事  懺  儀  課誦
       [label |-> "Liturgical", keywords |-> <<
          <<"u5100", "u8ECC">>, <<"u6CD5", "u4E8B">>, <<"u61FA">>,
          <<"u5100">>, <<"u8AB2", "u8AA6">> >>] >>

\* a mutant of DYNASTY_PERIODS: the Song entry without the single character
DYNASTY_PERIODS_SongCompounds ==
    << \* 漢  魏  晉  南北朝  劉宋  南齊  梁  陳  北魏  北齊  北周  隋
       [label |-> "Pre-Tang", keywords |-> <<
          <<"u6F22">>, <<"u9B4F">>, <<"u6649">>,
          <<"u5357", "u5317", "u671D">>, <<"u5289", "u5B8B">>, <<"u5357", "u9F4A">>,
          <<"u6881">>, <<"u9673">>, <<"u5317", "u9B4F">>,
          <<"u5317", "u9F4A">>, <<"u5317", "u5468">>, <<"u968B">> >>],
       \* 唐
       [label |-> "Tang", keywords |-> <<
          <<"u5510">> >>],
       \* 北宋  南宋
       [label |-> "Song", keywords |-> <<
          <<"u5317", "u5B8B">>, <<"u5357", "u5B8B">> >>],
       \* 元
       [label |-> "Yuan", keywords |-> <<
          <<"u5143">> >>],
       \* 明
       [label |-> "Ming", keywords |-> <<
          <<"u660E">> >>],
       \* 清
       [label |-> "Qing", keywords |-> <<
          <<"u6E05">> >>],
       \* 民國  中華民國  現代
       [label |-> "Modern", keywords |-> <<
          <<"u6C11", "u570B">>, <<"u4E2D", "u83EF", "u6C11", "u570B">>, <<"u73FE", "u4EE3">> >>],
       \* 當代
       [label |-> "Contemporary", keywords |-> <<
          <<"u7576", "u4EE3">> >>] >>

\* label -> keyword set, in dict insertion order; each keyword set is a
\* Python set, listed here in source order and iterated through SetIter
DYNASTY_PERIODS ==
    << \* 漢  魏  晉  南北朝  劉宋  南齊  梁  陳  北魏  北齊  北周  隋
       [label |-> "Pre-Tang", keywords |-> <<
          <<"u6F22">>, <<"u9B4F">>, <<"u6649">>,
          <<"u5357", "u5317", "u671D">>, <<"u5289", "u5B8B">>, <<"u5357", "u9F4A">>,
          <<"u6881">>, <<"u9673">>, <<"u5317", "u9B4F">>,
          <<"u5317", "u9F4A">>, <<"u5317", "u5468">>, <<"u968B">> >>],
       \* 唐
       [label |-> "Tang", keywords |-> <<
          <<"u5510">> >>],
       \* 宋  北宋  南宋
       [label |-> "Song", keywords |-> <<
          <<"u5B8B">>, <<"u5317", "u5B8B">>, <<"u5357", "u5B8B">> >>],
       \* 元
       [label |-> "Yuan", keywords |-> <<
          <<"u5143">> >>],
       \* 明
       [label |-> "Ming", keywords |-> <<
          <<"u660E">> >>],
       \* 清
       [label |-> "Qing", keywords |-> <<
          <<"u6E05">> >>],
       \* 民國  中華民國  現代
       [label |-> "Modern", keywords |-> <<
          <<"u6C11", "u570B">>, <<"u4E2D", "u83EF", "u6C11", "u570B">>, <<"u73FE", "u4EE3">> >>],
       \* 當代
       [label |-> "Contemporary", keywords |-> <<
          <<"u7576", "u4EE3">> >>] >>

\* label -> keyword set, in dict insertion order
GEOGRAPHIC_ORIGINS ==
    << \* 印度  天竺  中天竺  北天竺  南天竺  西天
       [label |-> "India", keywords |-> <<
          <<"u5370", "u5EA6">>, <<"u5929", "u7AFA">>, <<"u4E2D", "u5929", "u7AFA">>,
          <<"u5317", "u5929", "u7AFA">>, <<"u5357", "u5929", "u7AFA">>, <<"u897F", "u5929">> >>],
       \* 西域  中亞  龜茲  于闐  高昌
       [label |-> "Central Asia", keywords |-> <<
          <<"u897F", "u57DF">>, <<"u4E2D", "u4E9E">>, <<"u9F9C", "u8332">>,
          <<"u4E8E", "u95D0">>, <<"u9AD8", "u660C">> >>],
       \* 中國  漢地  中土  大唐  大宋  大元  大明  大清
       [label |-> "China", keywords |-> <<
          <<"u4E2D", "u570B">>, <<"u6F22", "u5730">>, <<"u4E2D", "u571F">>,
          <<"u5927", "u5510">>, <<"u5927", "u5B8B">>, <<"u5927", "u5143">>,
          <<"u5927", "u660E">>, <<"u5927", "u6E05">> >>],
       \* 高麗  新羅  百濟  朝鮮
       [label |-> "Korea", keywords |-> <<
          <<"u9AD8", "u9E97">>, <<"u65B0", "u7F85">>, <<"u767E", "u6FDF">>,
          <<"u671D", "u9BAE">> >>],
       \* 日本  倭
       [label |-> "Japan", keywords |-> <<
          <<"u65E5", "u672C">>, <<"u502D">> >>],
       \* 南海  扶南  真臘  林邑
       [label |-> "Southeast Asia", keywords |-> <<
          <<"u5357", "u6D77">>, <<"u6276", "u5357">>, <<"u771F", "u81D8">>,
          <<"u6797", "u9091">> >>] >>

\* ------------------------------------------------------------ str helpers
UpperCase == <<"A", "B", "C", "D", "E", "F", "G", "H", "I", "J", "K", "L", "M",
                "N", "O", "P", "Q", "R", "S", "T", "U", "V", "W", "X", "Y", "Z">>

LowerCase == <<"a", "b", "c", "d", "e", "f", "g", "h", "i", "j", "k", "l", "m",
                "n", "o", "p", "q", "r", "s", "t", "u", "v", "w", "x", "y", "z">>

\* the lower-case letter of each upper-case letter
LowerOf ==
    [c \in { UpperCase[i] : i \in 1..Len(UpperCase) } |->
        LowerCase[CHOOSE i \in 1..Len(UpperCase) : UpperCase[i] = c]]

\* str.lower() on one character: A-Z are folded, every other character of
\* the model (CJK, digits, punctuation, lower-case letters) is left alone
LowerChar(c) == IF c \in DOMAIN LowerOf THEN LowerOf[c] ELSE c

\* str.lower()
lower(s) == [i \in 1..Len(s) |-> LowerChar(s[i])]

\* `needle in haystack` on str: needle occurs as a contiguous substring
In(needle, haystack) ==
    \E i \in 0..(Len(haystack) - Len(needle)) :
        \A j \in 1..Len(needle) : haystack[i + j] = needle[j]

RECURSIVE Join(_)
\* ' '.join(parts)
Join(parts) ==
    IF Len(parts) = 0 THEN <<>>
    ELSE IF Len(parts) = 1 THEN parts[1]
    ELSE parts[1] \o <<" ">> \o Join(Tail(parts))

\* The order in which a Python set of str is iterated depends on the hash
\* seed of the process: the elements, listed in a base order, are visited
\* starting from position seed (rotation).  Every element is visited once.
SetIter(elems, seed) ==
    [j \in 1..Len(elems) |-> elems[((j - 1 + seed) % Len(elems)) + 1]]

\* ------------------------------------------------------------- classifier
RECURSIVE AnyKeyword(_, _, _, _)
\* the inner loop over the keywords of one table entry, from position j:
\* the first keyword found in the text ends it (break / return)
AnyKeyword(keywords, j, text_content, fold) ==
    IF j > Len(keywords) THEN FALSE
    ELSE IF In(IF fold THEN lower(keywords[j]) ELSE keywords[j], text_content) THEN TRUE
    ELSE AnyKeyword(keywords, j + 1, text_content, fold)

RECURSIVE TraditionScan(_, _, _)
\* the outer loop of classify_tradition from table entry i, with the set of
\* labels collected so far
TraditionScan(i, text_content, traditions) ==
    IF i > Len(TRADITION_CLASSIFICATIONS) THEN traditions
    ELSE TraditionScan(i + 1, text_content,
            IF AnyKeyword(TRADITION_CLASSIFICATIONS[i].keywords, 1, text_content, TRUE)
            THEN traditions \cup {TRADITION_CLASSIFICATIONS[i].label}
            ELSE traditions)

TraditionLabels ==
    [i \in 1..Len(TRADITION_CLASSIFICATIONS) |-> TRADITION_CLASSIFICATIONS[i].label]

\* list(traditions): the labels of the set in the iteration order of the set
ListOfSet(traditions, seed) ==
    LET base == SelectSeq(TraditionLabels, LAMBDA l : l \in traditions)
    IN  SetIter(base, seed)

\* a mutant of classify_tradition: the sentinel is missing
classify_tradition_NoSentinel(titles, author, source, seed) ==
    LET text_content == lower(Join(titles \o <<author>> \o <<source>>))
    IN  ListOfSet(TraditionScan(1, text_content, {}), seed)

\* a mutant of classify_tradition: the text is not lower-cased
classify_tradition_CaseSensitive(titles, author, source, seed) ==
    LET text_content == Join(titles \o <<author>> \o <<source>>)
        traditions == TraditionScan(1, text_content, {})
    IN  IF traditions # {} THEN ListOfSet(traditions, seed)
        ELSE <<"General/Unspecified">>

\* a mutant of classify_tradition: the author is left out of the text
classify_tradition_NoAuthor(titles, author, source, seed) ==
    LET text_content == lower(Join(titles \o <<source>>))
        traditions == TraditionScan(1, text_content, {})
    IN  IF traditions # {} THEN ListOfSet(traditions, seed)
        ELSE <<"General/Unspecified">>

classify_tradition(titles, author, source, seed) ==
    LET text_content == lower(Join(titles \o <<author>> \o <<source>>))
        traditions == TraditionScan(1, text_content, {})
    IN  IF traditions # {} THEN ListOfSet(traditions, seed)
        ELSE <<"General/Unspecified">>

RECURSIVE TableScan(_, _, _, _)
\* the two nested loops of classify_period and classify_geographic from
\* table entry i: the label of the first entry one of whose keywords is in
\* the text, None when the loops end without a return
TableScan(table, i, text_content, seed) ==
    IF i > Len(table) THEN None
    ELSE IF AnyKeyword(SetIter(table[i].keywords, seed), 1, text_content, FALSE)
         THEN table[i].label
         ELSE TableScan(table, i + 1, text_content, seed)

RECURSIVE TableScanLast(_, _, _, _)
\* a mutant of TableScan: the last matching entry wins
TableScanLast(table, i, text_content, seed) ==
    IF i > Len(table) THEN None
    ELSE LET rest == TableScanLast(table, i + 1, text_content, seed)
         IN  IF rest # None THEN rest
             ELSE IF AnyKeyword(SetIter(table[i].keywords, seed), 1, text_content, FALSE)
                  THEN table[i].label
                  ELSE None

\* the era words and dynasty characters of the fallback branches
ModernWords == << <<"u6C11", "u570B">>, <<"u4E2D", "u83EF", "u6C11", "u570B">>, <<"u73FE", "u4EE3">> >>

ContemporaryWords == << <<"u7576", "u4EE3">>, <<"u73FE", "u4EE3">> >>

DynastyChars == << <<"u5510">>, <<"u5B8B">>, <<"u5143">>, <<"u660E">>, <<"u6E05">> >>

\* the ordination marker U+91CB
OrdinationMarker == <<"u91CB">>

\* the branches of classify_period after the table scan
PeriodFallback(author, text_content) ==
    IF AnyKeyword(ModernWords, 1, text_content, FALSE) THEN "Modern"
    ELSE IF AnyKeyword(ContemporaryWords, 1, text_content, FALSE) THEN "Contemporary"
    ELSE IF In(OrdinationMarker, author) /\ AnyKeyword(DynastyChars, 1, text_content, FALSE)
         THEN "Traditional Chinese Buddhism"
    ELSE "Unknown Period"

\* a mutant of classify_period: the last matching table entry wins
classify_period_LastMatch(author, source, titles, seed) ==
    LET text_content == Join(<<author, source>> \o titles)
        period == TableScanLast(DYNASTY_PERIODS, 1, text_content, seed)
    IN  IF period # None THEN period ELSE PeriodFallback(author, text_content)

\* a mutant of classify_period: the ordination heuristic is tried first
classify_period_HeuristicFirst(author, source, titles, seed) ==
    LET text_content == Join(<<author, source>> \o titles)
        period == TableScan(DYNASTY_PERIODS, 1, text_content, seed)
    IN  IF In(OrdinationMarker, author) /\ AnyKeyword(DynastyChars, 1, text_content, FALSE)
        THEN "Traditional Chinese Buddhism"
        ELSE IF period # None THEN period ELSE PeriodFallback(author, text_content)

classify_period(author, source, titles, seed) ==
    LET text_content == Join(<<author, source>> \o titles)
        period == TableScan(DYNASTY_PERIODS, 1, text_content, seed)
    IN  IF period # None THEN period ELSE PeriodFallback(author, text_content)

\* a mutant of classify_geographic: the last matching table entry wins
classify_geographic_LastMatch(author, source, titles, seed) ==
    LET text_content == Join(<<author, source>> \o titles)
        region == TableScanLast(GEOGRAPHIC_ORIGINS, 1, text_content, seed)
    IN  IF region # None THEN region ELSE "Unknown Origin"

classify_geographic(author, source, titles, seed) ==
    LET text_content == Join(<<author, source>> \o titles)
        region == TableScan(GEOGRAPHIC_ORIGINS, 1, text_content, seed)
    IN  IF region # None THEN region ELSE "Unknown Origin"

\* ------------------------------------------------------------------ state
VARIABLES
    pc,             \* where the program is
    hash_seed,      \* the string hash seed of the running process
    metadata,       \* loop body: the record extract_metadata returned
    traditions,     \* loop body: result of classify_tradition
    period,         \* loop body: result of classify_period
    origin,         \* loop body: result of classify_geographic
    corpus,         \* the files under the root directory, each [path, doc]
    xml_files,      \* the enumerated paths, in enumeration order
    processed,      \* the loop counter
    results,        \* the aggregate index under construction
    outputs,        \* the structures written by save_buddhist_analysis, one per run
    report          \* the groups generate_sorting_recommendations lists

vars == <<pc, hash_seed, metadata, traditions, period, origin,
          corpus, xml_files, processed, results, outputs, report>>

\* --------------------------------------------- inputs of the classifiers
\* the pieces a source text is made of: U+5B8B (Song), U+5510 (Tang),
\* U+5289 (with U+5B8B the Pre-Tang keyword U+5289 U+5B8B), U+5927 U+5510
\* (China, and Tang), U+5929 U+7AFA (India), U+5F8B (Vinaya), U+85CF (with
\* U+5F8B the Pali keyword), U+520A (in no keyword), "Zen", U+73FE U+4EE3
\* (Modern), U+91CB (Commentarial, and the ordination marker)
TokenPool ==
    { <<"u5B8B">>, <<"u5510">>, <<"u5289">>, <<"u5927", "u5510">>,
      <<"u5929", "u7AFA">>, <<"u5F8B">>, <<"u85CF">>, <<"u520A">>,
      <<"Z", "e", "n">>, <<"u73FE", "u4EE3">>, <<"u91CB">> }

\* the sequences of at most n elements of S
SeqsUpTo(S, n) == UNION { [1..k -> S] : k \in 0..n }

RECURSIVE Flatten(_)
Flatten(tokens) ==
    IF Len(tokens) = 0 THEN <<>> ELSE tokens[1] \o Flatten(Tail(tokens))

SourcePool ==
    { Flatten(ts) : ts \in UNION { [1..k -> TokenPool] : k \in 0..MaxTokens } }

\* no author, U+91CB U+5B97 U+5BF6, and U+5289 (which does not join the
\* first character of the source into a keyword: ' '.join separates them)
AuthorPool ==
    { <<>>, <<"u91CB", "u5B97", "u5BF6">>, <<"u5289">> }

\* no title, the single title U+516D U+7956 U+58C7 U+7D93, and two titles
\* "ZEN" and U+5B8B
TitlePool ==
    { <<>>, << <<"u516D", "u7956", "u58C7", "u7D93">> >>,
      << <<"Z", "E", "N">>, <<"u5B8B">> >> }

\* a metadata record handed to the three classifiers
InitClassify ==
    /\ pc = "classify"
    /\ hash_seed \in 0..MaxSeed
    /\ metadata \in [titles : TitlePool, author : AuthorPool, source : SourcePool]
    /\ traditions = <<>>
    /\ period = None
    /\ origin = None
    /\ corpus = {}
    /\ xml_files = <<>>
    /\ processed = 0
    /\ results = <<>>
    /\ outputs = <<>>
    /\ report = <<>>

\* lines 207-209
Classify ==
    /\ pc = "classify"
    /\ traditions' = classify_tradition(metadata.titles, metadata.author, metadata.source, hash_seed)
    /\ period' = classify_period(metadata.author, metadata.source, metadata.titles, hash_seed)
    /\ origin' = classify_geographic(metadata.author, metadata.source, metadata.titles, hash_seed)
    /\ pc' = "classified"
    /\ UNCHANGED <<hash_seed, metadata, corpus, xml_files, processed, results, outputs, report>>

SpecClassify == InitClassify /\ [][Classify]_vars

\* -------------------------------------------------------------- extractor
\* A document is [parses, root_attrs, titles, authors, bibls]: whether the
\* file is well-formed XML, the attributes declared on the root element as
\* records [prefix, local, value], and the text (None when the element has
\* none) of the tei:title elements, of the tei:author elements and of the
\* tei:sourceDesc/tei:bibl elements, in document order.

\* the registry loaded by load_canon_info: canon code -> properties
canon_info ==
    [code \in {"T", "X"} |->
        IF code = "T" THEN ("title-zh" :> "Taisho") ELSE ("title-en" :> "Xuzangjing")]

\* the key ElementTree stores an attribute under: a prefixed name is
\* expanded with the namespace of the prefix (Clark notation)
AttribKey(prefix, local) ==
    IF prefix = "xml" THEN "{http://www.w3.org/XML/1998/namespace}" \o local
    ELSE IF prefix = "" THEN local
    ELSE "{" \o prefix \o "}" \o local

\* root.attrib of the parsed document
RootAttrib(doc) ==
    [key \in { AttribKey(a.prefix, a.local) : a \in doc.root_attrs } |->
        (CHOOSE a \in doc.root_attrs : AttribKey(a.prefix, a.local) = key).value]

\* element.get(key, default)
Get(attrib, key, default) ==
    IF key \in DOMAIN attrib THEN attrib[key] ELSE default

RECURSIVE LeadingUpperRun(_)
\* re.match(r'^([A-Z]+)', xml_id): the leading run of A-Z, "" for no match
LeadingUpperRun(xml_id) ==
    IF Len(xml_id) = 0 \/ ~(\E i \in 1..Len(UpperCase) : UpperCase[i] = xml_id[1])
    THEN ""
    ELSE xml_id[1] \o LeadingUpperRun(Tail(xml_id))

RECURSIVE FirstRegistryPart(_, _)
\* lines 90-94: the first path segment that is a key of the registry
FirstRegistryPart(file_parts, registry) ==
    IF Len(file_parts) = 0 THEN None
    ELSE IF file_parts[1] \in DOMAIN registry THEN file_parts[1]
    ELSE FirstRegistryPart(Tail(file_parts), registry)

Whitespace == {" ", "\t", "\n"}

RECURSIVE LStrip(_)
LStrip(s) == IF Len(s) > 0 /\ s[1] \in Whitespace THEN LStrip(Tail(s)) ELSE s

RECURSIVE RStrip(_)
RStrip(s) ==
    IF Len(s) > 0 /\ s[Len(s)] \in Whitespace THEN RStrip(SubSeq(s, 1, Len(s) - 1)) ELSE s

\* str.strip()
strip(s) == RStrip(LStrip(s))

\* element.text of an element without text (None)
NoText == <<None>>

\* `if x.text`: the element has a text and it is not empty
HasText(text) == text # NoText /\ text # <<>>

RECURSIVE TitleTexts_NoStrip(_)
\* the texts as they stand in the document
TitleTexts_NoStrip(title_elements) ==
    IF Len(title_elements) = 0 THEN <<>>
    ELSE (IF HasText(title_elements[1]) THEN <<title_elements[1]>> ELSE <<>>)
            \o TitleTexts_NoStrip(Tail(title_elements))

RECURSIVE TitleTexts(_)
\* lines 97-101
TitleTexts(title_elements) ==
    IF Len(title_elements) = 0 THEN <<>>
    ELSE (IF HasText(title_elements[1]) THEN <<strip(title_elements[1])>> ELSE <<>>)
            \o TitleTexts(Tail(title_elements))

\* lines 104-107 and 110-113: the first element, if any, and its text
FirstText(elements) ==
    IF Len(elements) > 0 /\ HasText(elements[1]) THEN strip(elements[1]) ELSE <<>>

\* lines 82-94, given the value read at line 79
CanonCode(xml_id, file_parts, registry) ==
    LET from_id == IF xml_id # <<>> /\ LeadingUpperRun(xml_id) # ""
                   THEN LeadingUpperRun(xml_id) ELSE None
    IN  IF from_id # None THEN from_id ELSE FirstRegistryPart(file_parts, registry)

\* a path is the sequence of its segments (xml_file_path.split(os.sep))
extract_metadata(xml_file_path, doc, registry) ==
    IF ~doc.parses THEN [error |-> "ParseError"]
    ELSE
        LET xml_id == Get(RootAttrib(doc), "xml:id", <<>>)
            canon_code == CanonCode(xml_id, xml_file_path, registry)
        IN  [xml_id |-> xml_id,
             canon_code |-> canon_code,
             canon_name |->
                IF canon_code # None
                THEN Get(Get(registry, canon_code, <<>>), "title-zh", canon_code)
                ELSE "Unknown",
             titles |-> TitleTexts(doc.titles),
             author |-> FirstText(doc.authors),
             source |-> FirstText(doc.bibls),
             file_path |-> xml_file_path]

\* ----------------------------------------------------------------- walker
\* A dict (defaultdict, Counter) keeps its keys in insertion order: it is a
\* sequence of entries [key, val].
KeyPos(d, k) ==
    IF \E i \in 1..Len(d) : d[i].key = k
    THEN CHOOSE i \in 1..Len(d) : d[i].key = k
    ELSE 0

\* d[k] of a defaultdict: the default when k is not a key
DictGet(d, k, default) == IF KeyPos(d, k) = 0 THEN default ELSE d[KeyPos(d, k)].val

\* d[k] = v: a new key goes last
DictSet(d, k, v) ==
    IF KeyPos(d, k) = 0 THEN Append(d, [key |-> k, val |-> v])
    ELSE [d EXCEPT ![KeyPos(d, k)].val = v]

\* d[k].append(x) on defaultdict(list)
DictAppend(d, k, x) == DictSet(d, k, Append(DictGet(d, k, <<>>), x))

\* c[k] += 1 on a Counter
CounterInc(c, k) == DictSet(c, k, DictGet(c, k, 0) + 1)

RECURSIVE CounterIncAll(_, _)
\* lines 215-216
CounterIncAll(c, labels) ==
    IF Len(labels) = 0 THEN c ELSE CounterIncAll(CounterInc(c, labels[1]), Tail(labels))

RECURSIVE DictAppendAll(_, _, _)
\* lines 221-222
DictAppendAll(d, labels, x) ==
    IF Len(labels) = 0 THEN d ELSE DictAppendAll(DictAppend(d, labels[1], x), Tail(labels), x)

\* line 188: the default of by_canon
NewCanon == [files |-> <<>>, traditions |-> <<>>, periods |-> <<>>, origins |-> <<>>]

\* lines 186-193
NoResults ==
    [summary |-> <<>>, by_canon |-> <<>>, by_tradition |-> <<>>,
     by_period |-> <<>>, by_origin |-> <<>>, detailed_analysis |-> <<>>]

\* a mutant of FoldCanon: the period tally moves once per tradition label
FoldCanon_PeriodPerTradition(by_canon, md, trads, per, orig) ==
    IF md.canon_code # None
    THEN LET old == DictGet(by_canon, md.canon_code, NewCanon)
         IN  DictSet(by_canon, md.canon_code,
                [files |-> Append(old.files, md.file_path),
                 traditions |-> CounterIncAll(old.traditions, trads),
                 periods |-> CounterIncAll(old.periods, [i \in 1..Len(trads) |-> per]),
                 origins |-> CounterInc(old.origins, orig)])
    ELSE by_canon

\* lines 212-218
FoldCanon(by_canon, md, trads, per, orig) ==
    IF md.canon_code # None
    THEN LET old == DictGet(by_canon, md.canon_code, NewCanon)
         IN  DictSet(by_canon, md.canon_code,
                [files |-> Append(old.files, md.file_path),
                 traditions |-> CounterIncAll(old.traditions, trads),
                 periods |-> CounterInc(old.periods, per),
                 origins |-> CounterInc(old.origins, orig)])
    ELSE by_canon

\* lines 231-240
Detail(md, trads, per, orig) ==
    [file |-> md.file_path,
     canon |-> md.canon_code,
     canon_name |-> md.canon_name,
     traditions |-> trads,
     period |-> per,
     origin |-> orig,
     author |-> md.author,
     main_title |-> IF Len(md.titles) > 0 THEN md.titles[1] ELSE <<>>]

\* a mutant of Fold: the period and origin indices are updated under the
\* canon test as well
Fold_AllUnderCanonTest(res, md, trads, per, orig) ==
    [res EXCEPT
        !.by_canon = FoldCanon(@, md, trads, per, orig),
        !.by_tradition = DictAppendAll(@, trads, md.file_path),
        !.by_period = IF md.canon_code # None THEN DictAppend(@, per, md.file_path) ELSE @,
        !.by_origin = IF md.canon_code # None THEN DictAppend(@, orig, md.file_path) ELSE @,
        !.detailed_analysis = Append(@, Detail(md, trads, per, orig))]

\* a mutant of Fold: the period index is filled once per tradition label
Fold_PeriodPerTradition(res, md, trads, per, orig) ==
    [res EXCEPT
        !.by_canon = FoldCanon(@, md, trads, per, orig),
        !.by_tradition = DictAppendAll(@, trads, md.file_path),
        !.by_period = DictAppendAll(@, [i \in 1..Len(trads) |-> per], md.file_path),
        !.by_origin = DictAppend(@, orig, md.file_path),
        !.detailed_analysis = Append(@, Detail(md, trads, per, orig))]

\* lines 211-240: one classified document folded into the results
Fold(res, md, trads, per, orig) ==
    [res EXCEPT
        !.by_canon = FoldCanon(@, md, trads, per, orig),
        !.by_tradition = DictAppendAll(@, trads, md.file_path),
        !.by_period = DictAppend(@, per, md.file_path),
        !.by_origin = DictAppend(@, orig, md.file_path),
        !.detailed_analysis = Append(@, Detail(md, trads, per, orig))]

\* lines 243-249
Summary(files, res) ==
    [total_files |-> Len(files),
     canons_found |-> Len(res.by_canon),
     traditions_found |-> Len(res.by_tradition),
     periods_found |-> Len(res.by_period),
     origins_found |-> Len(res.by_origin)]

\* the sample caps of save_buddhist_analysis
CanonSampleCap == 5

GroupSampleCap == 10

DetailCap == 100

\* s[:n]
Prefix(s, n) == SubSeq(s, 1, IF Len(s) < n THEN Len(s) ELSE n)

\* a mutant of CappedGroups: the files are counted after the cut
CappedGroups_CountListed(d) ==
    [i \in 1..Len(d) |->
        [key |-> d[i].key,
         val |-> [file_count |-> Len(Prefix(d[i].val, GroupSampleCap)),
                  files |-> Prefix(d[i].val, GroupSampleCap)]]]

\* line 267: a group index as {k: {'file_count', 'files'}}
CappedGroups(d) ==
    [i \in 1..Len(d) |->
        [key |-> d[i].key,
         val |-> [file_count |-> Len(d[i].val), files |-> Prefix(d[i].val, GroupSampleCap)]]]

\* lines 258-271
Serializable(res) ==
    [summary |-> res.summary,
     by_canon |->
        [i \in 1..Len(res.by_canon) |->
            [key |-> res.by_canon[i].key,
             val |-> [file_count |-> Len(res.by_canon[i].val.files),
                      traditions |-> res.by_canon[i].val.traditions,
                      periods |-> res.by_canon[i].val.periods,
                      origins |-> res.by_canon[i].val.origins,
                      sample_files |-> Prefix(res.by_canon[i].val.files, CanonSampleCap)]]],
     by_tradition |-> CappedGroups(res.by_tradition),
     by_period |-> CappedGroups(res.by_period),
     by_origin |-> CappedGroups(res.by_origin),
     detailed_analysis |-> Prefix(res.detailed_analysis, DetailCap)]

\* ------------------------------------------------------- the corpus walked
\* T/T01/T01n0001.xml: xml:id "T01n0001", one title U+79AA U+5F8B with
\* blanks around it (Chan/Zen and Vinaya), bibl U+5B8B
FileChanVinaya ==
    [path |-> <<"xml-p5", "T", "T01", "T01n0001.xml">>,
     doc |-> [parses |-> TRUE,
              root_attrs |-> { [prefix |-> "xml", local |-> "id",
                                value |-> <<"T", "0", "1", "n", "0", "0", "0", "1">>] },
              titles |-> << <<" ", "u79AA", "u5F8B", "\n">> >>,
              authors |-> << >>,
              bibls |-> << <<"u5B8B">> >>]]

\* X/X01/X01n0001.xml: not well-formed
FileMalformed ==
    [path |-> <<"xml-p5", "X", "X01", "X01n0001.xml">>,
     doc |-> [parses |-> FALSE, root_attrs |-> {}, titles |-> <<>>,
              authors |-> <<>>, bibls |-> <<>>]]

\* misc/foo.xml: xml:id "T0001_foo", no registry code in the path; title
\* U+516D U+7956 U+58C7 U+7D93, author U+91CB U+5B97 U+5BF6, bibl U+5B8B
FilePlatformSutra ==
    [path |-> <<"xml-p5", "misc", "foo.xml">>,
     doc |-> [parses |-> TRUE,
              root_attrs |-> { [prefix |-> "xml", local |-> "id",
                                value |-> <<"T", "0", "0", "0", "1", "_", "f", "o", "o">>] },
              titles |-> << <<"u516D", "u7956", "u58C7", "u7D93">> >>,
              authors |-> << <<"u91CB", "u5B97", "u5BF6">> >>,
              bibls |-> << <<"u5B8B">> >>]]

\* misc/b.xml: no xml:id, no registry code in the path, a title element
\* without text, no author, no bibl
FileEmpty ==
    [path |-> <<"xml-p5", "misc", "b.xml">>,
     doc |-> [parses |-> TRUE, root_attrs |-> {}, titles |-> <<NoText>>,
              authors |-> <<>>, bibls |-> <<>>]]

\* X/T/T02n0099.xml: no xml:id, two registry codes in the path; title
\* U+5F8B U+85CF (Vinaya and Pali/Theravada), an author element without
\* text, two bibl elements, the first U+5929 U+7AFA U+5510
FileVinayaPitaka ==
    [path |-> <<"xml-p5", "X", "T", "T02n0099.xml">>,
     doc |-> [parses |-> TRUE, root_attrs |-> {},
              titles |-> << <<"u5F8B", "u85CF">> >>,
              authors |-> << NoText >>,
              bibls |-> << <<"u5929", "u7AFA", "u5510">>, <<"u5B8B">> >>]]

FilePool ==
    { FileChanVinaya, FileMalformed, FilePlatformSutra, FileEmpty, FileVinayaPitaka }

\* the document stored at a path of the corpus
DocAt(path) == (CHOOSE f \in corpus : f.path = path).doc

\* the elements of a list
Range(seq) == { seq[i] : i \in 1..Len(seq) }

\* the sequences that list every element of S once
Orders(S) ==
    { order \in [1..Cardinality(S) -> S] :
        \A i, j \in 1..Cardinality(S) : order[i] = order[j] => i = j }

\* ------------------------------------------------------ order of strings
\* the characters of the texts and paths of the model, by ascending code point
CodePointOrder ==
    <<"\t", "\n", " ", "'", ",", "-", ".", "/", "0", "1", "2", "3", "4", "5",
      "6", "7", "8", "9", ":", "A", "B", "C", "D", "E", "F", "G", "H", "I",
      "J", "K", "L", "M", "N", "O", "P", "Q", "R", "S", "T", "U", "V", "W",
      "X", "Y", "Z", "[", "]", "_", "a", "b", "c", "d", "e", "f", "g", "h",
      "i", "j", "k", "l", "m", "n", "o", "p", "q", "r", "s", "t", "u", "v",
      "w", "x", "y", "z", "|">>

\* ord(c), up to an increasing renumbering
Ord(c) == CHOOSE i \in 1..Len(CodePointOrder) : CodePointOrder[i] = c

\* a < b on str: at the first position where they differ a has the smaller
\* character, or a ends there
StrLess(a, b) ==
    \E k \in 1..(Len(b)) :
        /\ \A i \in 1..(k - 1) : i <= Len(a) /\ a[i] = b[i]
        /\ (k > Len(a) \/ (k <= Len(a) /\ Ord(a[k]) < Ord(b[k])))

\* the characters of a path segment
SegmentChars(segment) ==
    IF segment = "xml-p5" THEN <<"x", "m", "l", "-", "p", "5">> ELSE
    IF segment = "T" THEN <<"T">> ELSE
    IF segment = "X" THEN <<"X">> ELSE
    IF segment = "T01" THEN <<"T", "0", "1">> ELSE
    IF segment = "X01" THEN <<"X", "0", "1">> ELSE
    IF segment = "misc" THEN <<"m", "i", "s", "c">> ELSE
    IF segment = "foo.xml" THEN <<"f", "o", "o", ".", "x", "m", "l">> ELSE
    IF segment = "b.xml" THEN <<"b", ".", "x", "m", "l">> ELSE
    IF segment = "T01n0001.xml" THEN <<"T", "0", "1", "n", "0", "0", "0", "1", ".", "x", "m", "l">> ELSE
    IF segment = "X01n0001.xml" THEN <<"X", "0", "1", "n", "0", "0", "0", "1", ".", "x", "m", "l">> ELSE
    IF segment = "T02n0099.xml" THEN <<"T", "0", "2", "n", "0", "0", "9", "9", ".", "x", "m", "l">> ELSE
    <<>>

\* os.sep
os_sep == "/"

RECURSIVE PathString(_)
\* str(path): the segments joined by os.sep
PathString(path) ==
    IF Len(path) = 0 THEN <<>>
    ELSE IF Len(path) = 1 THEN SegmentChars(path[1])
    ELSE SegmentChars(path[1]) \o <<os_sep>> \o PathString(Tail(path))

\* sorted(xml_files) for a set of paths
SortedPaths(paths) ==
    CHOOSE order \in Orders(paths) :
        \A i, j \in 1..Len(order) :
            i < j => StrLess(PathString(order[i]), PathString(order[j]))

\* ---------------------------------------------------------------- actions
InitWalk ==
    /\ pc = "enumerate"
    /\ hash_seed \in 0..MaxSeed
    /\ corpus \in { c \in SUBSET FilePool : Cardinality(c) <= MaxFiles }
    /\ metadata = <<>>
    /\ traditions = <<>>
    /\ period = None
    /\ origin = None
    /\ xml_files = <<>>
    /\ processed = 0
    /\ results = NoResults
    /\ outputs = <<>>
    /\ report = <<>>

\* lines 177-195: rglob yields the files in the order of the directory
\* listing, which the code leaves as it is
Enumerate ==
    /\ pc = "enumerate"
    /\ xml_files' \in Orders({ f.path : f \in corpus })
    /\ results' = NoResults
    /\ processed' = 0
    /\ pc' = "walk"
    /\ UNCHANGED <<hash_seed, metadata, traditions, period, origin, corpus, outputs, report>>

\* lines 196-240: one iteration of the loop
ProcessFile ==
    /\ pc = "walk"
    /\ processed < Len(xml_files)
    /\ processed' = processed + 1
    /\ LET xml_file == xml_files[processed + 1]
           md == extract_metadata(xml_file, DocAt(xml_file), canon_info)
       IN  /\ metadata' = md
           /\ IF "error" \in DOMAIN md
              THEN UNCHANGED <<traditions, period, origin, results>>
              ELSE /\ traditions' = classify_tradition(md.titles, md.author, md.source, hash_seed)
                   /\ period' = classify_period(md.author, md.source, md.titles, hash_seed)
                   /\ origin' = classify_geographic(md.author, md.source, md.titles, hash_seed)
                   /\ results' = Fold(results, md, traditions', period', origin')
    /\ UNCHANGED <<pc, hash_seed, corpus, xml_files, outputs, report>>

\* lines 242-251
Summarize ==
    /\ pc = "walk"
    /\ processed = Len(xml_files)
    /\ results' = [results EXCEPT !.summary = Summary(xml_files, results)]
    /\ pc' = "analyzed"
    /\ UNCHANGED <<hash_seed, metadata, traditions, period, origin, corpus,
                   xml_files, processed, outputs, report>>

\* lines 253-276 (main, line 345)
Save ==
    /\ pc = "analyzed"
    /\ outputs' = Append(outputs, Serializable(results))
    /\ pc' = "saved"
    /\ UNCHANGED <<hash_seed, metadata, traditions, period, origin, corpus,
                   xml_files, processed, results, report>>

\* the pipeline is started again, in a new process, on the unchanged corpus
Rerun ==
    /\ pc = "saved"
    /\ Len(outputs) < 2
    /\ hash_seed' \in 0..MaxSeed
    /\ pc' = "enumerate"
    /\ metadata' = <<>>
    /\ traditions' = <<>>
    /\ period' = None
    /\ origin' = None
    /\ xml_files' = <<>>
    /\ processed' = 0
    /\ results' = NoResults
    /\ report' = <<>>
    /\ UNCHANGED <<corpus, outputs>>

Next == Enumerate \/ ProcessFile \/ Summarize \/ Save

\* one run of main()
Spec == InitWalk /\ [][Next]_vars

\* two runs of main() over the same corpus
SpecRerun == InitWalk /\ [][Next \/ Rerun]_vars

\* ---------------------------------------------------- analyze_projectdesc
\* A document is here [readable, parses, has_project_desc, p_elements]:
\* whether the file can be opened, whether it is well-formed, whether it has
\* a tei:projectDesc element, and the tei:p children of the first such
\* element as records [lang, text] (lang None when xml:lang is not set).

RECURSIVE JoinBar(_)
\* ' | '.join(parts)
JoinBar(parts) ==
    IF Len(parts) = 0 THEN <<>>
    ELSE IF Len(parts) = 1 THEN parts[1]
    ELSE parts[1] \o <<" ", "|", " ">> \o JoinBar(Tail(parts))

\* "No project description found"
NoDescriptionFound ==
    <<"N", "o", " ", "p", "r", "o", "j", "e", "c", "t", " ", "d", "e", "s",
      "c", "r", "i", "p", "t", "i", "o", "n", " ", "f", "o", "u", "n", "d">>

\* "No projectDesc tag found"
NoTagFound ==
    <<"N", "o", " ", "p", "r", "o", "j", "e", "c", "t", "D", "e", "s", "c",
      " ", "t", "a", "g", " ", "f", "o", "u", "n", "d">>

\* "XML parsing error: "
XmlParsingError ==
    <<"X", "M", "L", " ", "p", "a", "r", "s", "i", "n", "g", " ", "e", "r",
      "r", "o", "r", ":", " ">>

\* "Error reading file: "
ErrorReadingFile ==
    <<"E", "r", "r", "o", "r", " ", "r", "e", "a", "d", "i", "n", "g", " ",
      "f", "i", "l", "e", ":", " ">>

\* str(e) of the ParseError of the malformed documents of the model
ParseErrorText ==
    <<"n", "o", " ", "e", "l", "e", "m", "e", "n", "t", " ", "f", "o", "u",
      "n", "d", ":", " ", "l", "i", "n", "e", " ", "2", ",", " ", "c", "o",
      "l", "u", "m", "n", " ", "0">>

\* str(e) of the PermissionError raised for a file that cannot be opened
PermissionErrorText(xml_file_path) ==
    <<"[", "E", "r", "r", "n", "o", " ", "1", "3", "]", " ", "P", "e", "r",
      "m", "i", "s", "s", "i", "o", "n", " ", "d", "e", "n", "i", "e", "d",
      ":", " ", "'">>
        \o PathString(xml_file_path) \o <<"'">>

RECURSIVE EnglishTexts(_)
\* lines 39-43
EnglishTexts(p_elements) ==
    IF Len(p_elements) = 0 THEN <<>>
    ELSE (IF p_elements[1].lang = "en"
          THEN <<IF HasText(p_elements[1].text) THEN strip(p_elements[1].text) ELSE <<>> >>
          ELSE <<>>)
            \o EnglishTexts(Tail(p_elements))

RECURSIVE AllTexts(_)
\* lines 49-52
AllTexts(p_elements) ==
    IF Len(p_elements) = 0 THEN <<>>
    ELSE (IF HasText(p_elements[1].text) THEN <<strip(p_elements[1].text)>> ELSE <<>>)
            \o AllTexts(Tail(p_elements))

extract_project_desc(xml_file_path, doc) ==
    IF ~doc.readable THEN ErrorReadingFile \o PermissionErrorText(xml_file_path)
    ELSE IF ~doc.parses THEN XmlParsingError \o ParseErrorText
    ELSE IF doc.has_project_desc
    THEN LET english_texts == EnglishTexts(doc.p_elements)
             all_texts == AllTexts(doc.p_elements)
         IN  IF Len(english_texts) > 0 THEN JoinBar(english_texts)
             ELSE IF Len(all_texts) > 0 THEN JoinBar(all_texts)
             ELSE NoDescriptionFound
    ELSE NoTagFound

\* lines 109-114: the test that decides whether the file is put in errors
TrackedAsError(project_desc) ==
    \/ In(<<"e", "r", "r", "o", "r">>, lower(project_desc))
    \/ In(<<"n", "o", "t", " ", "f", "o", "u", "n", "d">>, lower(project_desc))

\* os.path.relpath(xml_file, xml_directory)
relpath(xml_file) == Tail(xml_file)

\* lines 101-114: one file put into its group and, if the test says so, into
\* the errors
GroupFile(res, xml_file, project_desc) ==
    [project_groups |-> DictAppend(res.project_groups, project_desc, relpath(xml_file)),
     errors |->
        IF TrackedAsError(project_desc)
        THEN Append(res.errors, [file |-> relpath(xml_file), issue |-> project_desc])
        ELSE res.errors]

\* sorted(project_groups.items()): the keys are distinct, so they decide
SortedItems(d) ==
    CHOOSE items \in Orders(Range(d)) :
        \A i, j \in 1..Len(items) : i < j => StrLess(items[i].key, items[j].key)

\* lines 119-134
ProjectResult(files, res) ==
    [summary |-> [total_files |-> Len(files),
                  unique_project_desc_count |-> Len(res.project_groups),
                  files_with_errors |-> Len(res.errors)],
     project_groups |->
        LET items == SortedItems(res.project_groups)
        IN  [i \in 1..Len(items) |->
                [key |-> items[i].key,
                 val |-> [file_count |-> Len(items[i].val), files |-> items[i].val]]],
     errors |-> res.errors]

\* a readable, well-formed document with a projectDesc element
Described(p_elements) ==
    [readable |-> TRUE, parses |-> TRUE, has_project_desc |-> TRUE,
     p_elements |-> p_elements]

\* T/T01/T01n0001.xml: one English paragraph " CBETA\n"
ProjEnglish ==
    [path |-> <<"xml-p5", "T", "T01", "T01n0001.xml">>,
     doc |-> Described(<< [lang |-> "en", text |-> <<" ", "C", "B", "E", "T", "A", "\n">>] >>)]

\* T/foo.xml: a Chinese paragraph and the English paragraph "CBETA"
ProjBilingual ==
    [path |-> <<"xml-p5", "T", "foo.xml">>,
     doc |-> Described(<< [lang |-> "zh", text |-> <<"u4E2D">>],
                          [lang |-> "en", text |-> <<"C", "B", "E", "T", "A">>] >>)]

\* X/b.xml: two paragraphs without language
ProjNoLanguage ==
    [path |-> <<"xml-p5", "X", "b.xml">>,
     doc |-> Described(<< [lang |-> None, text |-> <<"I", "n", "p", "u", "t", " ", "b", "y", " ", "A">>],
                          [lang |-> None, text |-> <<"P", "r", "o", "o", "f", " ", "b", "y", " ", "B">>] >>)]

\* misc/foo.xml: the English paragraph "Fixed errors"
ProjErrata ==
    [path |-> <<"xml-p5", "misc", "foo.xml">>,
     doc |-> Described(<< [lang |-> "en", text |-> <<"F", "i", "x", "e", "d", " ", "e", "r", "r", "o", "r", "s">>] >>)]

\* X/X01/X01n0001.xml: not well-formed
ProjMalformed ==
    [path |-> <<"xml-p5", "X", "X01", "X01n0001.xml">>,
     doc |-> [readable |-> TRUE, parses |-> FALSE, has_project_desc |-> FALSE,
              p_elements |-> <<>>]]

\* X/T/T02n0099.xml: cannot be opened
ProjUnreadable ==
    [path |-> <<"xml-p5", "X", "T", "T02n0099.xml">>,
     doc |-> [readable |-> FALSE, parses |-> FALSE, has_project_desc |-> FALSE,
              p_elements |-> <<>>]]

\* misc/b.xml: no projectDesc element
ProjNoTag ==
    [path |-> <<"xml-p5", "misc", "b.xml">>,
     doc |-> [readable |-> TRUE, parses |-> TRUE, has_project_desc |-> FALSE,
              p_elements |-> <<>>]]

\* T/b.xml: a projectDesc element whose only paragraph has no text
ProjNoText ==
    [path |-> <<"xml-p5", "T", "b.xml">>,
     doc |-> Described(<< [lang |-> None, text |-> NoText] >>)]

ProjFilePool ==
    { ProjEnglish, ProjBilingual, ProjNoLanguage, ProjErrata, ProjMalformed,
      ProjUnreadable, ProjNoTag, ProjNoText }

InitProject ==
    /\ pc = "find"
    /\ hash_seed = 0
    /\ corpus \in { c \in SUBSET ProjFilePool : Cardinality(c) <= MaxFiles }
    /\ metadata = <<>>
    /\ traditions = <<>>
    /\ period = None
    /\ origin = None
    /\ xml_files = <<>>
    /\ processed = 0
    /\ results = [project_groups |-> <<>>, errors |-> <<>>]
    /\ outputs = <<>>
    /\ report = <<>>

\* lines 82-91 with find_xml_files, lines 63-74
FindXmlFiles ==
    /\ pc = "find"
    /\ xml_files' = SortedPaths({ f.path : f \in corpus })
    /\ results' = [project_groups |-> <<>>, errors |-> <<>>]
    /\ processed' = 0
    /\ pc' = "group"
    /\ UNCHANGED <<hash_seed, metadata, traditions, period, origin, corpus, outputs, report>>

\* lines 93-114: one iteration of the loop
GroupNextFile ==
    /\ pc = "group"
    /\ processed < Len(xml_files)
    /\ processed' = processed + 1
    /\ LET xml_file == xml_files[processed + 1]
           project_desc == extract_project_desc(xml_file, DocAt(xml_file))
       IN  /\ metadata' = project_desc
           /\ results' = GroupFile(results, xml_file, project_desc)
    /\ UNCHANGED <<pc, hash_seed, traditions, period, origin, corpus, xml_files,
                   outputs, report>>

\* lines 116-134
ConvertResult ==
    /\ pc = "group"
    /\ processed = Len(xml_files)
    /\ outputs' = <<ProjectResult(xml_files, results)>>
    /\ pc' = "converted"
    /\ UNCHANGED <<hash_seed, metadata, traditions, period, origin, corpus,
                   xml_files, processed, results, report>>

NextProject == FindXmlFiles \/ GroupNextFile \/ ConvertResult

\* analyze_xml_files of analyze_projectdesc.py
SpecProject == InitProject /\ [][NextProject]_vars

\* ------------------------------------------- inputs of classify_period
\* the dynasty characters and era words the function looks for, the
\* ordination marker, and U+520A, U+968B which are none of them; the two
\* words U+6C11 U+570B and U+7576 U+4EE3 and the compound U+5317 U+5B8B
PeriodTokens ==
    { <<"u5510">>, <<"u5B8B">>, <<"u5143">>, <<"u660E">>, <<"u6E05">>,
      <<"u6C11", "u570B">>, <<"u73FE", "u4EE3">>, <<"u7576", "u4EE3">>,
      <<"u5317", "u5B8B">>, <<"u91CB">>, <<"u520A">>, <<"u968B">> }

InitPeriod ==
    /\ pc = "classify_period"
    /\ hash_seed \in 0..MaxSeed
    /\ metadata \in
        [titles : { <<>>, << <<"u4E2D", "u83EF", "u6C11", "u570B">> >> },
         author : { <<>>, <<"u91CB", "u5B97", "u5BF6">> },
         source : { Flatten(ts) : ts \in SeqsUpTo(PeriodTokens, MaxTokens) }]
    /\ traditions = <<>>
    /\ period = None
    /\ origin = None
    /\ corpus = {}
    /\ xml_files = <<>>
    /\ processed = 0
    /\ results = <<>>
    /\ outputs = <<>>
    /\ report = <<>>

\* line 208
ClassifyPeriod ==
    /\ pc = "classify_period"
    /\ period' = classify_period(metadata.author, metadata.source, metadata.titles, hash_seed)
    /\ pc' = "period_classified"
    /\ UNCHANGED <<hash_seed, metadata, traditions, origin, corpus, xml_files,
                   processed, results, outputs, report>>

\* classify_period over the words it looks for
SpecPeriod == InitPeriod /\ [][ClassifyPeriod]_vars

\* ------------------------------------------------------- a large corpus
\* enough files for every cap of save_buddhist_analysis to cut a list
LargeSize == DetailCap + 2

\* file i of the large corpus: the first does not parse, every fourth has
\* the content of FileVinayaPitaka, the others that of FileChanVinaya; the
\* files are spread over the directories of two canons
LargeFile(i) ==
    [path |-> <<"xml-p5", IF i % 2 = 0 THEN "T" ELSE "X", "L01",
                "n" \o ToString(i) \o ".xml">>,
     doc |-> IF i = 1 THEN FileMalformed.doc
             ELSE IF i % 4 = 0 THEN FileVinayaPitaka.doc
             ELSE FileChanVinaya.doc]

LargeCorpus == { LargeFile(i) : i \in 1..LargeSize }

\* the directory listing started at file 1 + shift
Rotated(shift) ==
    [i \in 1..LargeSize |-> LargeFile(((i - 1 + shift) % LargeSize) + 1).path]

InitLarge ==
    /\ pc = "enumerate"
    /\ hash_seed \in 0..MaxSeed
    /\ corpus = LargeCorpus
    /\ metadata = <<>>
    /\ traditions = <<>>
    /\ period = None
    /\ origin = None
    /\ xml_files = <<>>
    /\ processed = 0
    /\ results = NoResults
    /\ outputs = <<>>
    /\ report = <<>>

\* lines 177-195, for a few of the orders the listing can have
EnumerateLarge ==
    /\ pc = "enumerate"
    /\ \E shift \in 0..MaxShift : xml_files' = Rotated(shift)
    /\ results' = NoResults
    /\ processed' = 0
    /\ pc' = "walk"
    /\ UNCHANGED <<hash_seed, metadata, traditions, period, origin, corpus, outputs, report>>

\* ----------------------------------------------- sorting_recommendations
\* the thresholds and the cut of generate_sorting_recommendations
TraditionThreshold == 50

PeriodThreshold == 50

OriginThreshold == 10

TopGroups == 10

\* one more entry put into a list sorted by descending file_count, behind
\* the entries that count as much
InsertByCount(sorted_groups, entry) ==
    LET k == Cardinality({ i \in 1..Len(sorted_groups) :
                            sorted_groups[i].val.file_count >= entry.val.file_count })
    IN  SubSeq(sorted_groups, 1, k) \o <<entry>> \o SubSeq(sorted_groups, k + 1, Len(sorted_groups))

RECURSIVE SortedFirst(_, _)
\* sorted(d.items(), key=lambda x: x[1]['file_count'], reverse=True) of the
\* first n items: the sort is stable
SortedFirst(d, n) ==
    IF n = 0 THEN <<>> ELSE InsertByCount(SortedFirst(d, n - 1), d[n])

SortedByCount(d) == SortedFirst(d, Len(d))

\* the printed lines: the group and the count shown with it
Line(group, count) == [group |-> group, count |-> count]

\* the count a loop takes from a group: data['file_count'] (lines 41 and
\* 63) or len(data['files']) (lines 81 and 99)
CountOf(data, taken_from) ==
    IF taken_from = "file_count" THEN data.file_count ELSE Len(data.files)

RECURSIVE PrintedIf(_, _, _)
\* the loops at lines 40-43, 75-83 and 93-101: the groups whose count, taken
\* as the loop takes it, is above the threshold
PrintedIf(groups, taken_from, threshold) ==
    IF Len(groups) = 0 THEN <<>>
    ELSE (IF CountOf(groups[1].val, taken_from) > threshold
          THEN <<Line(groups[1].key, CountOf(groups[1].val, taken_from))>> ELSE <<>>)
            \o PrintedIf(Tail(groups), taken_from, threshold)

\* lines 33-101, on the structure read back from the saved file
Recommendations(buddhist_data) ==
    [traditions |->
        PrintedIf(Prefix(SortedByCount(buddhist_data.by_tradition), TopGroups),
                  "file_count", TraditionThreshold),
     canons |->
        LET sorted_canons == Prefix(SortedByCount(buddhist_data.by_canon), TopGroups)
        IN  [i \in 1..Len(sorted_canons) |->
                Line(sorted_canons[i].key, sorted_canons[i].val.file_count)],
     periods |->
        PrintedIf(SortedByCount(buddhist_data.by_period),
                  "files", PeriodThreshold),
     origins |->
        PrintedIf(SortedByCount(buddhist_data.by_origin),
                  "files", OriginThreshold)]

\* sorting_recommendations.py run on the file the analyzer wrote
Recommend ==
    /\ pc = "saved"
    /\ report' = Recommendations(outputs[Len(outputs)])
    /\ pc' = "recommended"
    /\ UNCHANGED <<hash_seed, metadata, traditions, period, origin, corpus,
                   xml_files, processed, results, outputs>>

NextLarge == EnumerateLarge \/ ProcessFile \/ Summarize \/ Save \/ Recommend

\* the analyzer, then the report, over the large corpus
SpecLarge == InitLarge /\ [][NextLarge]_vars

\* ------------------------------------------- inputs of extract_metadata
\* the texts an element can carry: none, blanks only, a text with blanks
\* around it, a text with a blank inside
ElementTexts == { NoText, <<" ">>, <<" ", "a", "\n">>, <<"b", " ", "c">> }

AuthorTexts == { NoText, <<"\t", "d", " ">> }

\* one file whose content is drawn from the element texts above
InitExtract ==
    /\ pc = "extract"
    /\ hash_seed = 0
    /\ \E parses \in BOOLEAN, declared \in BOOLEAN,
          titles \in SeqsUpTo(ElementTexts, MaxElems),
          authors \in SeqsUpTo(AuthorTexts, MaxElems),
          bibls \in SeqsUpTo(AuthorTexts, 1) :
            corpus = { [path |-> <<"xml-p5", "X", "X01", "X01n0002.xml">>,
                        doc |-> [parses |-> parses,
                                 root_attrs |->
                                    IF declared
                                    THEN { [prefix |-> "xml", local |-> "id",
                                            value |-> <<"X", "0", "1">>] }
                                    ELSE {},
                                 titles |-> IF parses THEN titles ELSE <<>>,
                                 authors |-> IF parses THEN authors ELSE <<>>,
                                 bibls |-> IF parses THEN bibls ELSE <<>>]] }
    /\ xml_files = <<>>
    /\ metadata = <<>>
    /\ traditions = <<>>
    /\ period = None
    /\ origin = None
    /\ processed = 0
    /\ results = NoResults
    /\ outputs = <<>>
    /\ report = <<>>

\* line 201: metadata = extract_metadata(xml_file, canon_info)
Extract ==
    /\ pc = "extract"
    /\ \E f \in corpus :
        /\ xml_files' = <<f.path>>
        /\ metadata' = extract_metadata(f.path, f.doc, canon_info)
    /\ pc' = "extracted"
    /\ UNCHANGED <<hash_seed, traditions, period, origin, corpus, processed,
                   results, outputs, report>>

\* extract_metadata over every shape of document
SpecExtract == InitExtract /\ [][Extract]_vars

\* ======================================================= classifier claims
MinOf(S) == CHOOSE i \in S : \A j \in S : i <= j

\* the entries of a table with a keyword that occurs in the text
Matching(table, text_content) ==
    { i \in 1..Len(table) :
        \E j \in 1..Len(table[i].keywords) : In(table[i].keywords[j], text_content) }

\* the tradition labels with a keyword that occurs in the text, compared
\* without regard to case
MatchedTraditions(text_content) ==
    LET folded == lower(text_content)
    IN  { TRADITION_CLASSIFICATIONS[i].label : i \in
            { i \in 1..Len(TRADITION_CLASSIFICATIONS) :
                \E j \in 1..Len(TRADITION_CLASSIFICATIONS[i].keywords) :
                    In(lower(TRADITION_CLASSIFICATIONS[i].keywords[j]), folded) } }

TraditionText == Join(metadata.titles \o <<metadata.author, metadata.source>>)

PeriodText == Join(<<metadata.author, metadata.source>> \o metadata.titles)

TableLabels(table) == { table[i].label : i \in 1..Len(table) }

\* C1: every classified document has exactly one period label, exactly one
\* origin label and at least one tradition label, each of them a label of
\* the classifier or its sentinel
C1_OneLabelEach ==
    pc = "classified" =>
        /\ period \in TableLabels(DYNASTY_PERIODS)
                        \cup {"Traditional Chinese Buddhism", "Unknown Period"}
        /\ origin \in TableLabels(GEOGRAPHIC_ORIGINS) \cup {"Unknown Origin"}
        /\ Len(traditions) >= 1
        /\ Range(traditions) \subseteq
                TableLabels(TRADITION_CLASSIFICATIONS) \cup {"General/Unspecified"}

\* the all-empty document is classified with the three sentinels
C1_Witness ==
    /\ pc = "classified"
    /\ metadata = [titles |-> <<>>, author |-> <<>>, source |-> <<>>]
    /\ traditions = <<"General/Unspecified">>
    /\ period = "Unknown Period"
    /\ origin = "Unknown Origin"

\* C2: classify_tradition returns, without repetition, exactly the labels
\* with a keyword in the text (case-insensitively), and the sentinel alone
\* exactly when there is none
C2_TraditionExact ==
    pc = "classified" =>
        LET matched == MatchedTraditions(TraditionText)
            returned == Range(traditions)
        IN  /\ Cardinality(returned) = Len(traditions)
            /\ matched # {} => returned = matched
            /\ (returned = {"General/Unspecified"}) <=> (matched = {})
            /\ "General/Unspecified" \in returned => returned = {"General/Unspecified"}

\* "ZEN" in a title and U+5F8B in the source: two labels at once, one of
\* them through case folding
C2_Witness ==
    /\ pc = "classified"
    /\ metadata.titles = << <<"Z", "E", "N">>, <<"u5B8B">> >>
    /\ metadata.source = <<"u5F8B">>
    /\ Range(traditions) = {"Chan/Zen", "Vinaya"}

\* C3: when keywords of two or more period entries occur in the text,
\* classify_period returns the label of the matching entry of lowest index
C3_FirstMatchWins ==
    pc = "classified" =>
        LET hits == Matching(DYNASTY_PERIODS, PeriodText)
        IN  Cardinality(hits) >= 2 => period = DYNASTY_PERIODS[MinOf(hits)].label

\* U+5B8B (Song) comes first and twice, U+5510 (Tang) last and once: Tang
C3_Witness ==
    /\ pc = "classified"
    /\ metadata.author = <<>>
    /\ metadata.source = <<"u5B8B", "u5510">>
    /\ metadata.titles = << <<"Z", "E", "N">>, <<"u5B8B">> >>
    /\ hash_seed = MaxSeed
    /\ period = "Tang"

\* C4: classify_geographic returns the label of the matching region of
\* lowest index, and "Unknown Origin" exactly when no region keyword occurs
C4_GeoFirstMatch ==
    pc = "classified" =>
        LET hits == Matching(GEOGRAPHIC_ORIGINS, PeriodText)
        IN  /\ hits # {} => origin = GEOGRAPHIC_ORIGINS[MinOf(hits)].label
            /\ (origin = "Unknown Origin") <=> (hits = {})

\* the China keyword U+5927 U+5510 precedes the India keyword in the text
C4_Witness ==
    /\ pc = "classified"
    /\ metadata.source = <<"u5927", "u5510", "u5929", "u7AFA">>
    /\ origin = "India"

\* the keywords of the period and origin tables
PeriodOrOriginKeywords ==
    UNION { Range(DYNASTY_PERIODS[i].keywords) : i \in 1..Len(DYNASTY_PERIODS) }
        \cup UNION { Range(GEOGRAPHIC_ORIGINS[i].keywords) : i \in 1..Len(GEOGRAPHIC_ORIGINS) }

\* the document of the end-to-end example: title U+516D U+7956 U+58C7 U+7D93,
\* author U+91CB U+5B97 U+5BF6, a source whose only period or origin
\* keyword is U+5B8B
PlatformSutraExample ==
    /\ pc = "classified"
    /\ metadata.titles = << <<"u516D", "u7956", "u58C7", "u7D93">> >>
    /\ metadata.author = <<"u91CB", "u5B97", "u5BF6">>
    /\ { k \in PeriodOrOriginKeywords : In(k, metadata.source) } = { <<"u5B8B">> }

\* C8 as stated: the example is classified Chan/Zen, Song, Unknown Origin
C8_Original ==
    PlatformSutraExample =>
        /\ Range(traditions) = {"Chan/Zen"}
        /\ period = "Song"
        /\ origin = "Unknown Origin"

\* C8 amended: the example is classified Commentarial (U+91CB of the author
\* is a Commentarial keyword, the title has no keyword) plus the labels the
\* source matches by itself, Song, Unknown Origin
C8_Amended ==
    PlatformSutraExample =>
        /\ Range(traditions) = {"Commentarial"} \cup MatchedTraditions(metadata.source)
        /\ period = "Song"
        /\ origin = "Unknown Origin"

C8_Witness ==
    /\ PlatformSutraExample
    /\ metadata.source = <<"u5B8B">>
    /\ traditions = <<"Commentarial">>
    /\ period = "Song"
    /\ origin = "Unknown Origin"

\* C10: a keyword of the period table in the text decides the period (the
\* first matching entry), and "Traditional Chinese Buddhism" is returned
\* only when no entry matches, the author has the ordination marker and a
\* dynasty character occurs in the text
C10_TableBeforeFallback ==
    pc = "classified" =>
        LET hits == Matching(DYNASTY_PERIODS, PeriodText)
        IN  /\ hits # {} => period = DYNASTY_PERIODS[MinOf(hits)].label
            /\ period = "Traditional Chinese Buddhism" =>
                    /\ hits = {}
                    /\ In(OrdinationMarker, metadata.author)
                    /\ \E i \in 1..Len(DynastyChars) : In(DynastyChars[i], PeriodText)

\* the author has the ordination marker and U+5B8B is in the text: both
\* the table and the heuristic apply, and the table's label is returned
C10_Witness ==
    /\ pc = "classified"
    /\ In(OrdinationMarker, metadata.author)
    /\ metadata.source = <<"u5B8B">>
    /\ period = "Song"

\* =========================================================== walker claims
\* the files of the corpus handled so far that extraction accepts
Extracted == { xml_files[i] : i \in { i \in 1..processed : DocAt(xml_files[i]).parses } }

\* the paths listed in some canon group
ListedByCanon == UNION { Range(results.by_canon[i].val.files) : i \in 1..Len(results.by_canon) }

\* the step about to be taken handles a document that does not parse
AtMalformed ==
    /\ pc = "walk"
    /\ processed < Len(xml_files)
    /\ ~DocAt(xml_files[processed + 1]).parses

\* C5 as stated: handling a malformed document moves a counter of the
\* results (which the final results then show)
C5_SkipCounted == [][AtMalformed => results' # results]_vars

\* the value of the xml:id attribute the root element declares, <<>> for none
DeclaredXmlId(doc) ==
    IF \E a \in doc.root_attrs : a.prefix = "xml" /\ a.local = "id"
    THEN (CHOOSE a \in doc.root_attrs : a.prefix = "xml" /\ a.local = "id").value
    ELSE <<>>

\* C7 as stated: the canon code of a parsed document is the leading
\* upper-case run of its declared xml:id when there is one, and the first
\* registry code of its path (None when there is none) otherwise
C7_IdPreferred ==
    \A i \in 1..Len(results.detailed_analysis) :
        LET d == results.detailed_analysis[i]
            run == LeadingUpperRun(DeclaredXmlId(DocAt(d.file)))
        IN  d.canon = IF run # "" THEN run ELSE FirstRegistryPart(d.file, canon_info)

\* the labels the classifiers give the document at a path
LabelsOf(path) ==
    LET md == extract_metadata(path, DocAt(path), canon_info)
    IN  [canon_code |-> md.canon_code,
         traditions |-> Range(classify_tradition(md.titles, md.author, md.source, hash_seed)),
         period |-> classify_period(md.author, md.source, md.titles, hash_seed),
         origin |-> classify_geographic(md.author, md.source, md.titles, hash_seed)]

\* the path is in the tradition, period and origin indices under its labels
\* and has one detail record
InThreeIndices(path) ==
    /\ \A t \in LabelsOf(path).traditions :
            path \in Range(DictGet(results.by_tradition, t, <<>>))
    /\ path \in Range(DictGet(results.by_period, LabelsOf(path).period, <<>>))
    /\ path \in Range(DictGet(results.by_origin, LabelsOf(path).origin, <<>>))
    /\ Cardinality({ i \in 1..Len(results.detailed_analysis) :
                        results.detailed_analysis[i].file = path }) = 1

WalkOver == pc \in {"analyzed", "saved"}

\* C6 as stated: after the walk every extracted document is in by_canon and
\* in the other three indices under its labels, with one detail record
C6_Original ==
    WalkOver => \A path \in Extracted : path \in ListedByCanon /\ InThreeIndices(path)

\* C6 amended: after the walk every extracted document is in the tradition,
\* period and origin indices under its labels, with one detail record, and
\* it is in by_canon, under its canon code, exactly when a canon code was
\* derived for it
C6_Amended ==
    WalkOver =>
        \A path \in Extracted :
            /\ InThreeIndices(path)
            /\ LabelsOf(path).canon_code # None =>
                    path \in Range(DictGet(results.by_canon, LabelsOf(path).canon_code, NewCanon).files)
            /\ LabelsOf(path).canon_code = None => path \notin ListedByCanon

\* the document without canon code has been folded into the three indices
C6_Witness ==
    /\ WalkOver
    /\ FileEmpty.path \in Extracted
    /\ FileEmpty.path \notin ListedByCanon
    /\ FileEmpty.path \in Range(DictGet(results.by_period, "Unknown Period", <<>>))
    /\ FileEmpty.path \in Range(DictGet(results.by_tradition, "General/Unspecified", <<>>))

\* C9 as stated: two runs over the same corpus write the same structure
C9_Deterministic == Len(outputs) = 2 => outputs[1] = outputs[2]

\* ========================================================= extractor claims
\* the text between the first and the last character that is not a blank
Trimmed(text) ==
    LET inked == { i \in 1..Len(text) : text[i] \notin Whitespace }
    IN  IF inked = {} THEN <<>>
        ELSE SubSeq(text, MinOf(inked), CHOOSE i \in inked : \A j \in inked : j <= i)

\* the positions of the elements that carry a text
Texted(elements) == { i \in 1..Len(elements) : HasText(elements[i]) }

\* the file the extractor was given
Given == CHOOSE f \in corpus : TRUE

\* C11: extract_metadata always returns a record: the error record exactly
\* when the file cannot be parsed, and otherwise a record without error
\* whose titles are the trimmed texts of the title elements that carry a
\* text, in document order (empty when there are none), and whose author and
\* source are the trimmed text of the first author and of the first bibl
\* element (empty when there is no such element or it carries no text)
C11_ExtractTotal ==
    pc = "extracted" =>
        LET doc == Given.doc
        IN  /\ ~doc.parses => DOMAIN metadata = {"error"}
            /\ doc.parses =>
                /\ "error" \notin DOMAIN metadata
                /\ Len(metadata.titles) = Cardinality(Texted(doc.titles))
                /\ \A i \in Texted(doc.titles) :
                      metadata.titles[Cardinality({ j \in Texted(doc.titles) : j <= i })]
                          = Trimmed(doc.titles[i])
                /\ (doc.titles = <<>> => metadata.titles = <<>>)
                /\ metadata.author =
                      IF 1 \in Texted(doc.authors) THEN Trimmed(doc.authors[1]) ELSE <<>>
                /\ metadata.source =
                      IF 1 \in Texted(doc.bibls) THEN Trimmed(doc.bibls[1]) ELSE <<>>

\* two title elements, the first without text and the second with blanks
\* around its text, and a second author element that is not the one taken
C11_Witness ==
    /\ pc = "extracted"
    /\ Given.doc.parses
    /\ Given.doc.titles = <<NoText, <<" ", "a", "\n">> >>
    /\ metadata.titles = << <<"a">> >>
    /\ Len(Given.doc.authors) = 2
    /\ Given.doc.authors[1] # NoText
    /\ metadata.author = <<"d">>
    /\ metadata.source = <<>>


\* ============================================================ output claims
\* the structure the analyzer wrote last
Saved == outputs[Len(outputs)]

Written == pc \in {"saved", "recommended"}

\* the keys of a dict
Keys(d) == { d[i].key : i \in 1..Len(d) }

\* listed is the start of full, cut at cap entries
IsCappedPrefix(listed, full, cap) ==
    /\ Len(listed) = (IF Len(full) < cap THEN Len(full) ELSE cap)
    /\ \A i \in 1..Len(listed) : listed[i] = full[i]

\* the group index written for a group index of the walk: the same groups,
\* each with the size of its whole list and the capped start of the list
GroupsWritten(written, walked, members) ==
    /\ Len(written) = Len(walked)
    /\ \A i \in 1..Len(written) :
        /\ written[i].key = walked[i].key
        /\ written[i].val.file_count = Len(walked[i].val)
        /\ written[i].val.file_count = Cardinality(members[written[i].key])
        /\ IsCappedPrefix(written[i].val.files, walked[i].val, 10)
        /\ Len(written[i].val.files) <= 10
        /\ Len(written[i].val.files) <= written[i].val.file_count

\* C12: in the written structure each group's file_count is the number of
\* documents folded into the group during the walk, its listed files are
\* the start, in processing order, of the group's list, cut at 5 (canon),
\* 10 (tradition, period, origin) and 100 (detail records), and so never
\* more than the cap nor more than file_count
C12_CountsAndSamples ==
    Written =>
        LET labels == [path \in Extracted |-> LabelsOf(path)]
        IN  /\ GroupsWritten(Saved.by_tradition, results.by_tradition,
                    [t \in Keys(results.by_tradition) |->
                        { path \in Extracted : t \in labels[path].traditions }])
            /\ GroupsWritten(Saved.by_period, results.by_period,
                    [p \in Keys(results.by_period) |->
                        { path \in Extracted : labels[path].period = p }])
            /\ GroupsWritten(Saved.by_origin, results.by_origin,
                    [o \in Keys(results.by_origin) |->
                        { path \in Extracted : labels[path].origin = o }])
            /\ Len(Saved.by_canon) = Len(results.by_canon)
            /\ \A i \in 1..Len(Saved.by_canon) :
                LET canon == Saved.by_canon[i]
                IN  /\ canon.key = results.by_canon[i].key
                    /\ canon.val.file_count = Len(results.by_canon[i].val.files)
                    /\ canon.val.file_count =
                          Cardinality({ path \in Extracted : labels[path].canon_code = canon.key })
                    /\ IsCappedPrefix(canon.val.sample_files, results.by_canon[i].val.files, 5)
                    /\ Len(canon.val.sample_files) <= 5
                    /\ Len(canon.val.sample_files) <= canon.val.file_count
            /\ IsCappedPrefix(Saved.detailed_analysis, results.detailed_analysis, 100)

\* every cap has cut a list: a canon with more than 5 files, a period, an
\* origin and a tradition with more than 10, more than 100 detail records
C12_Witness ==
    /\ pc = "saved"
    /\ \E i \in 1..Len(Saved.by_canon) :
            Saved.by_canon[i].val.file_count > 5 /\ Len(Saved.by_canon[i].val.sample_files) = 5
    /\ \E i \in 1..Len(Saved.by_period) :
            Saved.by_period[i].val.file_count > 10 /\ Len(Saved.by_period[i].val.files) = 10
    /\ \E i \in 1..Len(Saved.by_origin) :
            Saved.by_origin[i].val.file_count > 10 /\ Len(Saved.by_origin[i].val.files) = 10
    /\ \E i \in 1..Len(Saved.by_tradition) :
            Saved.by_tradition[i].val.file_count > 10 /\ Len(Saved.by_tradition[i].val.files) = 10
    /\ Len(results.detailed_analysis) > 100
    /\ Len(Saved.detailed_analysis) = 100


\* ============================================================= order claims
\* the paths of the list stand in ascending order
Ascending(paths) ==
    \A i, j \in 1..Len(paths) :
        i < j => StrLess(PathString(paths[i]), PathString(paths[j]))

\* C13 as stated: the walker handles the enumerated paths in ascending
\* lexicographic order, so that the file list of every group of every index
\* is in ascending path order
C13_SortedWalk ==
    pc # "enumerate" =>
        /\ Ascending(xml_files)
        /\ \A i \in 1..Len(results.by_canon) : Ascending(results.by_canon[i].val.files)
        /\ \A i \in 1..Len(results.by_tradition) : Ascending(results.by_tradition[i].val)
        /\ \A i \in 1..Len(results.by_period) : Ascending(results.by_period[i].val)
        /\ \A i \in 1..Len(results.by_origin) : Ascending(results.by_origin[i].val)


\* ====================================================== conservation claims
RECURSIVE Sum(_)
Sum(numbers) == IF Len(numbers) = 0 THEN 0 ELSE numbers[1] + Sum(Tail(numbers))

\* how many places of the group lists of an index hold the path
Occurrences(index, path) ==
    Sum([g \in 1..Len(index) |->
            Cardinality({ i \in 1..Len(index[g].val) : index[g].val[i] = path })])

GroupSizes(index) == Sum([g \in 1..Len(index) |-> Len(index[g].val)])

\* C14: after any prefix of the walk each extracted document handled so far
\* is once in by_period and once in by_origin; the group sizes of by_period
\* and of by_origin both add up to the number of detail records, which is
\* the number of documents handled without extraction error; and that number
\* is at most summary.total_files, the number of enumerated files
C14_Conservation ==
    pc \in {"walk", "analyzed", "saved"} =>
        /\ \A path \in Extracted :
            /\ Occurrences(results.by_period, path) = 1
            /\ Occurrences(results.by_origin, path) = 1
        /\ GroupSizes(results.by_period) = Cardinality(Extracted)
        /\ GroupSizes(results.by_origin) = Cardinality(Extracted)
        /\ Len(results.detailed_analysis) = Cardinality(Extracted)
        /\ WalkOver =>
            /\ results.summary.total_files = Len(xml_files)
            /\ Cardinality(Extracted) <= results.summary.total_files

\* in the middle of a walk, after a skipped file and a folded one with two
\* tradition labels
C14_Witness ==
    /\ pc = "walk"
    /\ processed = 2
    /\ processed < Len(xml_files)
    /\ FileMalformed.path \in { xml_files[i] : i \in 1..processed }
    /\ FileChanVinaya.path \in Extracted
    /\ GroupSizes(results.by_tradition) = 2

Tally(counter) == Sum([k \in 1..Len(counter) |-> counter[k].val])

\* C15: after any prefix of the walk, for every canon of by_canon the
\* periods tally and the origins tally both add up to the length of the
\* canon's file list, the traditions tally adds up to at least that length,
\* and the file list is not empty
C15_CanonTallies ==
    \A i \in 1..Len(results.by_canon) :
        LET canon == results.by_canon[i].val
        IN  /\ Tally(canon.periods) = Len(canon.files)
            /\ Tally(canon.origins) = Len(canon.files)
            /\ Tally(canon.traditions) >= Len(canon.files)
            /\ Len(canon.files) >= 1

\* in the middle of a walk a canon has several files of two periods and
\* more tradition labels than files
C15_Witness ==
    /\ pc = "walk"
    /\ processed < Len(xml_files)
    /\ \E i \in 1..Len(results.by_canon) :
        LET canon == results.by_canon[i].val
        IN  /\ Len(canon.files) > 2
            /\ Len(canon.periods) = 2
            /\ Tally(canon.traditions) > Len(canon.files)


\* ============================================================= range claims
\* a word of the branches after the table scan occurs in the text
FallbackWordIn(text_content) ==
    \E words \in {ModernWords, ContemporaryWords, DynastyChars} :
        \E i \in 1..Len(words) : In(words[i], text_content)

\* C16: classify_period returns one of the eight table labels or "Unknown
\* Period", and each of these is returned for some text; every word of the
\* branches after the table scan is a keyword of the table, so when the
\* scan finds nothing none of them is in the text and "Unknown Period" is
\* returned; "Traditional Chinese Buddhism" is never returned
C16_PeriodRange ==
    /\ \A words \in {ModernWords, ContemporaryWords, DynastyChars} :
        \A i \in 1..Len(words) :
            \E e \in 1..Len(DYNASTY_PERIODS) : words[i] \in Range(DYNASTY_PERIODS[e].keywords)
    /\ \A e \in 1..Len(DYNASTY_PERIODS) :
        \E k \in 1..Len(DYNASTY_PERIODS[e].keywords) :
            classify_period(<<>>, DYNASTY_PERIODS[e].keywords[k], <<>>, hash_seed)
                = DYNASTY_PERIODS[e].label
    /\ pc = "period_classified" =>
        /\ period \in {"Pre-Tang", "Tang", "Song", "Yuan", "Ming", "Qing", "Modern",
                       "Contemporary", "Unknown Period"}
        /\ period # "Traditional Chinese Buddhism"
        /\ Matching(DYNASTY_PERIODS, PeriodText) = {} =>
                period = "Unknown Period" /\ ~FallbackWordIn(PeriodText)
        /\ FallbackWordIn(PeriodText) => Matching(DYNASTY_PERIODS, PeriodText) # {}

\* the author has the ordination marker and the text has the Contemporary
\* era word only: the table's label comes back
C16_Witness ==
    /\ pc = "period_classified"
    /\ In(OrdinationMarker, metadata.author)
    /\ metadata.source = <<"u7576", "u4EE3">>
    /\ metadata.titles = <<>>
    /\ period = "Contemporary"


\* ============================================== project description claims
\* the extraction of the document ended in one of the failure outcomes: the
\* file cannot be read, it cannot be parsed, it has no projectDesc element,
\* or the element holds no description text
ExtractionFailed(doc) ==
    \/ ~doc.readable
    \/ ~doc.parses
    \/ ~doc.has_project_desc
    \/ \A i \in 1..Len(doc.p_elements) : ~HasText(doc.p_elements[i].text)

\* the files the written result lists as errors
FilesInErrors == { Saved.errors[i].file : i \in 1..Len(Saved.errors) }

\* C17 as stated: every enumerated file is in exactly one project group, the
\* file_count of the groups add up to summary.total_files, and a file is
\* in the errors list exactly when its extraction failed, so that
\* files_with_errors counts the failed files and no other
C17_ErrorsAreFailures ==
    pc = "converted" =>
        /\ \A path \in Range(xml_files) :
                Cardinality({ i \in 1..Len(Saved.project_groups) :
                    relpath(path) \in Range(Saved.project_groups[i].val.files) }) = 1
        /\ Sum([g \in 1..Len(Saved.project_groups) |->
                    Saved.project_groups[g].val.file_count])
                = Saved.summary.total_files
        /\ \A path \in Range(xml_files) :
                relpath(path) \in FilesInErrors <=> ExtractionFailed(DocAt(path))
        /\ Saved.summary.files_with_errors =
                Cardinality({ path \in Range(xml_files) : ExtractionFailed(DocAt(path)) })


\* ====================================================== recommendation claims
\* the groups a section of the report lists
ListedIn(section) == { section[i].group : i \in 1..Len(section) }

\* C18 as stated: the report lists a period exactly when more than 50
\* documents were classified into it, and an origin exactly when more than
\* 10 were
C18_TrueSizes ==
    pc = "recommended" =>
        /\ \A i \in 1..Len(results.by_period) :
                results.by_period[i].key \in ListedIn(report.periods)
                    <=> Len(results.by_period[i].val) > 50
        /\ \A i \in 1..Len(results.by_origin) :
                results.by_origin[i].key \in ListedIn(report.origins)
                    <=> Len(results.by_origin[i].val) > 10

====
